---- MODULE Spec2Model ----
(***************************************************************************)
(* squish: a command-line tool that creates archives / compressed files    *)
(* and extracts them (src/main.go).  One run of main is modelled as a      *)
(* state machine over the command line, the disk and the position in main. *)
(* Strings are TLA+ strings; paths are the strings the code passes around. *)
(***************************************************************************)
EXTENDS Integers, Sequences, FiniteSets, TLC

VARIABLES
  cli,        \* the parsed command line (var cli, main.go 16-25)
  pc,         \* position in main
  fs,         \* the disk: cleaned path -> node
  fs0,        \* the disk when the current invocation started
  files,      \* create: the discovered []FileInfo
  format,     \* the format returned by archives.Identify
  identName,  \* the filename argument handed to archives.Identify
  stream,     \* extract: content readable through the opened input
  output,     \* extract: the output path
  role,       \* the case of the type switch that was taken
  idx,        \* extract: number of archive entries handed to the callback
  log,        \* extract: result of the callback for each entry so far
  defers,     \* the deferred closes of main, innermost last
  exitCode,   \* the local exitCode of main
  status,     \* the process exit status, Running until os.Exit
  stderr,     \* the diagnostics written to os.Stderr
  failed,     \* the bail points reached in this invocation
  run,        \* number of the invocation of the tool on this disk
  prev,       \* the command lines of the earlier invocations
  faults,     \* whether the environment has made an operation fail so far
  inputR,     \* extract: the reader archives.Identify returned
  handles     \* the opens and closes of handles so far, in order

vars == <<cli, pc, fs, fs0, files, format, identName, stream, output, role,
          idx, log, defers, exitCode, status, stderr, failed, run, prev,
          faults, inputR, handles>>

-----------------------------------------------------------------------------
(* Bounds *)

MaxEntries == 2    \* entries in an archive given to extract
MaxInputs == 2     \* input paths given to create

Running == -1

-----------------------------------------------------------------------------
(* strings and path/filepath *)

Char(s, i) == SubSeq(s, i, i)

HasPrefix(s, p) == Len(s) >= Len(p) /\ SubSeq(s, 1, Len(p)) = p

HasSuffix(s, suf) ==
  Len(s) >= Len(suf) /\ SubSeq(s, Len(s) - Len(suf) + 1, Len(s)) = suf

TrimSuffix(s, suf) ==
  IF HasSuffix(s, suf) THEN SubSeq(s, 1, Len(s) - Len(suf)) ELSE s

RECURSIVE ExtFrom(_, _)
ExtFrom(path, i) ==
  IF i < 1 \/ Char(path, i) = "/" THEN ""
  ELSE IF Char(path, i) = "." THEN SubSeq(path, i, Len(path))
  ELSE ExtFrom(path, i - 1)

\* filepath.Ext: the suffix beginning at the final dot of the final element
Ext(path) == ExtFrom(path, Len(path))

RECURSIVE SplitFrom(_, _, _)
SplitFrom(s, i, cur) ==
  IF i > Len(s) THEN <<cur>>
  ELSE IF Char(s, i) = "/" THEN <<cur>> \o SplitFrom(s, i + 1, "")
  ELSE SplitFrom(s, i + 1, cur \o Char(s, i))

\* the elements of a path between separators
Split(s) == SplitFrom(s, 1, "")

RECURSIVE JoinSegs(_)
JoinSegs(segs) ==
  IF segs = <<>> THEN ""
  ELSE IF Len(segs) = 1 THEN segs[1]
  ELSE segs[1] \o "/" \o JoinSegs(Tail(segs))

IsAbs(path) == HasPrefix(path, "/")

RECURSIVE CleanSegs(_, _, _)
CleanSegs(segs, out, rooted) ==
  IF segs = <<>> THEN out
  ELSE LET h == Head(segs)
           t == Tail(segs)
       IN IF h = "" \/ h = "." THEN CleanSegs(t, out, rooted)
          ELSE IF h = ".."
                 THEN IF out # <<>> /\ out[Len(out)] # ".."
                        THEN CleanSegs(t, SubSeq(out, 1, Len(out) - 1), rooted)
                        ELSE IF rooted THEN CleanSegs(t, out, rooted)
                        ELSE CleanSegs(t, Append(out, ".."), rooted)
                 ELSE CleanSegs(t, Append(out, h), rooted)

\* filepath.Clean
Clean(path) ==
  LET body == JoinSegs(CleanSegs(Split(path), <<>>, IsAbs(path)))
      res == IF IsAbs(path) THEN "/" \o body ELSE body
  IN IF res = "" THEN "." ELSE res

HasDots(path) == \E i \in 1..Len(Split(path)) : Split(path)[i] \in {".", ".."}

IsLocalNoClimbCheck(path) == ~(IsAbs(path) \/ path = "")

\* filepath.IsLocal (unix)
IsLocal(path) ==
  IF IsAbs(path) \/ path = "" THEN FALSE
  ELSE LET p == IF HasDots(path) THEN Clean(path) ELSE path
       IN ~(p = ".." \/ HasPrefix(p, "../"))

\* filepath.Join of two elements
Join(a, b) ==
  IF a = "" /\ b = "" THEN ""
  ELSE IF a = "" THEN Clean(b)
  ELSE IF b = "" THEN Clean(a)
  ELSE Clean(a \o "/" \o b)

\* the directory holding a cleaned path
DirOf(p) ==
  LET segs == Split(p)
      init == JoinSegs(SubSeq(segs, 1, Len(segs) - 1))
  IN IF Len(segs) = 1 THEN "."
     ELSE IF init = "" THEN "/" ELSE init

\* p is q or lies below q (both cleaned)
Within(p, q) == p = q \/ HasPrefix(p, q \o "/")

-----------------------------------------------------------------------------
(* file contents and the disk *)

\* A file's content: plain bytes, or what a codec of package archives wrote
\* (its leading bytes name the format; an archive holds entries, a
\* compressed file holds the bytes of its one input).
Plain(b) == [magic |-> "none", bytes |-> b, entries |-> <<>>]

Packed(m, b, es) == [magic |-> m, bytes |-> b, entries |-> es]

Inode(kind, mode, data, ino) ==
  [kind |-> kind, mode |-> mode, data |-> data, ino |-> ino]

Put(f, p, node) == [q \in DOMAIN f \cup {p} |-> IF q = p THEN node ELSE f[q]]

IsDirAt(f, p) == p \in {".", "/", ".."} \/ (p \in DOMAIN f /\ f[p].kind = "dir")

\* os.Mkdir fails on an existing path or a missing parent
MkdirErr(f, path) ==
  \/ path = ""
  \/ Clean(path) \in {".", "/", ".."}
  \/ Clean(path) \in DOMAIN f
  \/ ~IsDirAt(f, DirOf(Clean(path)))

Mkdir(f, path, mode) == Put(f, Clean(path), Inode("dir", mode, Plain(""), "new"))

OpenFileErrParentNotNeeded(f, path) ==
  \/ path = ""
  \/ IsDirAt(f, Clean(path))

\* opening for write with O_CREATE fails on a directory or a missing parent
OpenFileErr(f, path) ==
  \/ path = ""
  \/ IsDirAt(f, Clean(path))
  \/ ~IsDirAt(f, DirOf(Clean(path)))

\* os.OpenFile(name, O_CREATE|O_WRONLY, mode): an existing file is opened as
\* it is, a missing one is created empty with the given mode
OpenFile(f, path, mode) ==
  IF Clean(path) \in DOMAIN f THEN f
  ELSE Put(f, Clean(path), Inode("file", mode, Plain(""), "new"))

\* os.Create(name): O_RDWR|O_CREATE|O_TRUNC, mode 0666
Create(f, path) ==
  IF Clean(path) \in DOMAIN f
    THEN [f EXCEPT ![Clean(path)].data = Plain("")]
    ELSE Put(f, Clean(path), Inode("file", 438, Plain(""), "new"))

\* bytes of a file after writing w at offset 0 of a handle opened without
\* O_TRUNC
Overwrite(old, w) ==
  IF Len(w) >= Len(old) THEN w ELSE w \o SubSeq(old, Len(w) + 1, Len(old))

\* the first n bytes of b, all of b when it is shorter
Prefix(b, n) == IF n >= Len(b) THEN b ELSE SubSeq(b, 1, n)

WriteBytes(f, path, w) ==
  [f EXCEPT ![Clean(path)].data = Plain(Overwrite(@.bytes, w))]

RemoveOnlyRoot(f, path) ==
  IF path = "" THEN f
  ELSE [q \in {r \in DOMAIN f : r # Clean(path)} |-> f[q]]

\* os.RemoveAll: the path and everything below it; "" is a no-op
RemoveAll(f, path) ==
  IF path = "" THEN f
  ELSE [q \in {r \in DOMAIN f : ~Within(r, Clean(path))} |-> f[q]]

\* os.RemoveAll refuses a path whose last element is "."
RemoveAllErr(path) ==
  path # "" /\ Split(path)[Len(Split(path))] = "."

-----------------------------------------------------------------------------
(* package archives: formats and identification *)

NoMatch == [name |-> "nomatch", ext |-> "", caps |-> {}]

\* The registered formats: canonical extension and the interfaces each
\* implements.  "tar.gz" is the compressed archive, which implements the
\* archive and the compression interfaces alike; "wo" has no reading role.
Formats == {
  [name |-> "tar", ext |-> ".tar", caps |-> {"Archiver", "Extractor"}],
  [name |-> "gz", ext |-> ".gz", caps |-> {"Compressor", "Decompressor"}],
  [name |-> "tar.gz", ext |-> ".tar.gz",
   caps |-> {"Archiver", "Extractor", "Compressor", "Decompressor"}],
  [name |-> "rar", ext |-> ".rar", caps |-> {"Extractor"}],
  [name |-> "wo", ext |-> ".wo", caps |-> {"Compressor"}] }

ByName(filename) == {f \in Formats : HasSuffix(filename, f.ext)}

Longest(fset) == CHOOSE f \in fset : \A g \in fset : Len(g.ext) <= Len(f.ext)

ByStream(strm) ==
  IF strm = <<>> THEN {} ELSE {f \in Formats : f.name = strm[1].magic}

\* archives.Identify(ctx, filename, stream): the stream's leading bytes decide
\* when a stream is given and they are recognised, else the filename does
Identify(filename, strm) ==
  IF ByStream(strm) # {} THEN Longest(ByStream(strm))
  ELSE IF ByName(filename) # {} THEN Longest(ByName(filename))
  ELSE NoMatch

\* the leading bytes archives.Identify reads from the stream to match them
\* against the formats' headers, counted in headers: none of an empty stream
Sniffed(strm) == IF strm = <<>> \/ strm[1] = Plain("") THEN 0 ELSE 1

\* no reader yet
NoReader == [sniffed |-> 0, from |-> 0]

NotRewound(sniffed) == [sniffed |-> sniffed, from |-> sniffed]

\* the reader archives.Identify returns with the format (inputR, main.go
\* 131): the stream from its first byte again, the sniffed bytes included
Rewound(sniffed) == [sniffed |-> sniffed, from |-> 0]

\* what a reader standing at `from` yields of a file's content: all of it,
\* or the content without its leading bytes, which no codec recognises
ReadFrom(data, from) ==
  IF from = 0 THEN data
  ELSE IF data.magic = "none"
         THEN Plain(SubSeq(data.bytes, from + 1, Len(data.bytes)))
         ELSE Plain(data.bytes)

-----------------------------------------------------------------------------
(* the command line and the disks a run can start from *)

\* kong.Parse fills the selected command's arguments only; the other
\* command's fields keep their zero values
CreateCmd(out, ins) ==
  [cmd |-> "create", CreateOutput |-> out, CreateInputs |-> ins,
   ExtractInput |-> "", ExtractOutput |-> <<>>]

\* ExtractOutput is a *string: <<>> is nil, <<s>> points at s
ExtractCmd(in, out) ==
  [cmd |-> "extract", CreateOutput |-> "", CreateInputs |-> <<>>,
   ExtractInput |-> in, ExtractOutput |-> out]

FileEntry(name, data, mode) ==
  [name |-> name, isDir |-> FALSE, data |-> data, mode |-> mode]

DirEntry(name, mode) ==
  [name |-> name, isDir |-> TRUE, data |-> "", mode |-> mode]

\* entries an archive handed to extract may hold
EntryPool == {
  FileEntry("a", "hi", 420),
  FileEntry("a", "h", 384),
  DirEntry("d", 493),
  FileEntry("d/a", "yo", 420),
  FileEntry("d/../../e", "ev", 420),
  FileEntry("/e", "ev", 420),
  DirEntry(".", 493) }

SeqsUpTo(S, n) == UNION {[1..k -> S] : k \in 0..n}

Archives == SeqsUpTo(EntryPool, MaxEntries)

OneEntry == <<FileEntry("a", "hi", 420)>>

\* (source name, content) of the file given to extract
ExtractSources ==
  {<<"x.tar", Packed("tar", "", es)>> : es \in Archives}
  \cup { <<"x.tar", Plain("")>>,
         <<"x.tar", Plain("zz")>>,
         <<"x.bin", Packed("tar", "", OneEntry)>>,
         <<"x", Packed("tar", "", OneEntry)>>,
         <<"x.tar.gz", Packed("tar.gz", "", OneEntry)>>,
         <<"x.gz", Packed("gz", "hi", <<>>)>>,
         <<"x.gz", Packed("rar", "", OneEntry)>>,
         <<"d.x/y", Packed("gz", "hi", <<>>)>>,
         <<"d/.tar", Packed("tar", "", OneEntry)>>,
         <<"x.wo", Packed("wo", "hi", <<>>)>> }

ExplicitOutputs == {<<>>, <<"out">>}

\* what lies at the places extract may write to before it runs
OldFile(b) == Inode("file", 420, Plain(b), "pre")

OldDir == Inode("dir", 493, Plain(""), "pre")

NoDisk == <<>>

UsedDisk ==
  Put(Put(Put(Put(NoDisk, "out", OldDir), "out/a", OldFile("old!")),
          "x", OldDir), "x/old", OldFile("old!"))

DisksForExtract == {
  NoDisk,
  UsedDisk,
  Put(Put(NoDisk, "out", OldFile("old!")), "x", OldFile("old!")) }

\* the disk create reads its inputs from
SourceDisk ==
  Put(Put(Put(NoDisk, "a", OldFile("hi")), "d", OldDir),
      "d/f", Inode("file", 384, Plain("yo"), "pre"))

InputNames == {"a", "d", "d/f", "m"}

CreateOutputs == {"o.tar", "o.gz", "o.tar.gz", "o.rar", "o"}

InitCreate ==
  \E out \in CreateOutputs, ins \in SeqsUpTo(InputNames, MaxInputs),
     pre \in BOOLEAN :
    /\ cli = CreateCmd(out, ins)
    /\ fs = IF pre THEN Put(SourceDisk, out, OldFile("old!")) ELSE SourceDisk
    /\ pc = "c_discover"

InitExtract ==
  \E src \in ExtractSources, out \in ExplicitOutputs, disk \in DisksForExtract,
     present \in BOOLEAN :
    /\ present \/ (src[2] = Plain("") /\ disk = NoDisk)
    /\ Len(src[2].entries) <= 1 \/ (disk = UsedDisk /\ out = <<>>)
    /\ src[1] \notin DOMAIN disk
    /\ cli = ExtractCmd(src[1], out)
    /\ fs = IF ~present THEN disk
            ELSE LET withDir == IF DirOf(src[1]) = "." THEN disk
                                ELSE Put(disk, DirOf(src[1]), OldDir)
                 IN Put(withDir, src[1], Inode("file", 420, src[2], "pre"))
    /\ pc = "e_open"

Init ==
  /\ InitCreate \/ InitExtract
  /\ fs0 = fs
  /\ files = <<>>
  /\ format = NoMatch
  /\ identName = ""
  /\ stream = <<>>
  /\ output = ""
  /\ role = "none"
  /\ idx = 0
  /\ log = <<>>
  /\ defers = <<>>
  /\ exitCode = 0
  /\ status = Running
  /\ stderr = <<>>
  /\ failed = {}
  /\ run = 1
  /\ prev = <<>>
  /\ faults = FALSE
  /\ inputR = NoReader
  /\ handles = <<>>

-----------------------------------------------------------------------------
(* bail, the deferred closes and the exit *)

\* The environment (disk, streams, os.Stderr) makes operations fail in the
\* first invocation only; a later invocation shows what the code does with
\* what the first one wrote.
EnvMayFail == run = 1

\* the text bail prints at each of its call sites; the deferred close of the
\* compressor's input (main.go 108) prints the text of the failed open
Diagnostic(point) ==
  IF point = "close compressor input" THEN "open input file" ELSE point

\* bail (main.go 33-40): print the diagnostic, set exitCode, runtime.Goexit.
\* When the write to os.Stderr fails bail panics before exitCode is set.
\* Either way the deferred functions of main run next.
Bail(point, wrote, msgs, env) ==
  /\ (env \/ ~wrote) => EnvMayFail
  /\ faults' = (faults \/ env \/ ~wrote)
  /\ failed' = failed \cup {point}
  /\ stderr' = IF wrote THEN Append(msgs, Diagnostic(point)) ELSE msgs
  /\ exitCode' = IF wrote THEN 1 ELSE exitCode
  /\ pc' = "unwind"

\* the end of main's switch: main returns and its deferred functions run
Return ==
  /\ pc' = "unwind"
  /\ UNCHANGED <<failed, stderr, exitCode, faults>>

\* the events recorded in handles
Opened(h) == <<"open", h>>

Closed(h) == <<"close", h>>

\* a deferred close of main (main.go 64-68, 86-90, 96-100, 106-110, 125-129,
\* 216-220, 226-230): close the handle, bail when the close fails
RunDeferred ==
  /\ pc = "unwind"
  /\ defers # <<>>
  /\ defers' = SubSeq(defers, 1, Len(defers) - 1)
  /\ handles' = Append(handles, Closed(defers[Len(defers)]))
  /\ \/ UNCHANGED <<failed, stderr, exitCode, faults, pc>>
     \/ \E wrote \in BOOLEAN :
          Bail("close " \o defers[Len(defers)], wrote, stderr, TRUE)
  /\ UNCHANGED <<cli, fs, fs0, files, format, identName, stream, output, role,
                 idx, log, status, run, prev, inputR>>

ExitBeforeDeferred ==
  /\ pc = "unwind"
  /\ status' = exitCode
  /\ pc' = "exited"
  /\ UNCHANGED <<cli, fs, fs0, files, format, identName, stream, output, role,
                 idx, log, defers, exitCode, stderr, failed, run, prev,
                 faults, inputR, handles>>

\* the first deferred function of main, so the last to run (main.go 31):
\* os.Exit(exitCode)
Exit ==
  /\ pc = "unwind"
  /\ defers = <<>>
  /\ status' = exitCode
  /\ pc' = "exited"
  /\ UNCHANGED <<cli, fs, fs0, files, format, identName, stream, output, role,
                 idx, log, defers, exitCode, stderr, failed, run, prev,
                 faults, inputR, handles>>

-----------------------------------------------------------------------------
(* extract (main.go 120-238) *)

\* main.go 121-129: os.Open(cli.Extract.Input), defer input.Close()
ExtractOpen ==
  /\ pc = "e_open"
  /\ \/ /\ cli.ExtractInput \in DOMAIN fs
        /\ stream' = <<fs[cli.ExtractInput].data>>
        /\ defers' = Append(defers, "input file")
        /\ handles' = Append(handles, Opened("input file"))
        /\ pc' = "e_identify"
        /\ UNCHANGED <<failed, stderr, exitCode, faults>>
     \/ /\ \E wrote \in BOOLEAN :
             Bail("open input file", wrote, stderr,
                  cli.ExtractInput \in DOMAIN fs)
        /\ UNCHANGED <<stream, defers, handles>>
  /\ UNCHANGED <<cli, fs, fs0, files, format, identName, output, role, idx,
                 log, status, run, prev, inputR>>

\* the filename main hands to archives.Identify on the extract path
\* (main.go 131)
IdentifyArg == cli.CreateOutput

\* main.go 131-134: archives.Identify(ctx, cli.Create.Output, input)
ExtractIdentify ==
  /\ pc = "e_identify"
  /\ identName' = IdentifyArg
  /\ format' = Identify(IdentifyArg, stream)
  /\ inputR' = Rewound(Sniffed(stream))
  /\ IF format' = NoMatch
       THEN \E wrote \in BOOLEAN : Bail("identify format", wrote, stderr, FALSE)
       ELSE /\ pc' = "e_output"
            /\ UNCHANGED <<failed, stderr, exitCode, faults>>
  /\ UNCHANGED <<cli, fs, fs0, files, stream, output, role, idx, log, defers,
                 status, run, prev, handles>>

DeriveOutputExtOnly(in, explicit, fmt) ==
  IF explicit # <<>> THEN <<explicit[1]>>
  ELSE IF Ext(in) # "" THEN <<TrimSuffix(in, Ext(in))>>
  ELSE <<>>

\* main.go 136-145: the output path, <<>> when none can be determined
DeriveOutput(in, explicit, fmt) ==
  IF explicit # <<>> THEN <<explicit[1]>>
  ELSE IF HasSuffix(in, fmt.ext) THEN <<TrimSuffix(in, fmt.ext)>>
  ELSE IF Ext(in) # "" THEN <<TrimSuffix(in, Ext(in))>>
  ELSE <<>>

\* main.go 136-145
ExtractOutput ==
  /\ pc = "e_output"
  /\ LET o == DeriveOutput(cli.ExtractInput, cli.ExtractOutput, format)
     IN IF o = <<>>
          THEN /\ \E wrote \in BOOLEAN :
                    Bail("determine output path", wrote, stderr, FALSE)
               /\ UNCHANGED output
          ELSE /\ output' = o[1]
               /\ pc' = "e_dispatch"
               /\ UNCHANGED <<failed, stderr, exitCode, faults>>
  /\ UNCHANGED <<cli, fs, fs0, files, format, identName, stream, role, idx,
                 log, defers, status, run, prev, inputR,
                 handles>>

ReadRoleExtractorByDefault(fmt) ==
  IF "Extractor" \in fmt.caps THEN "Extractor"
  ELSE IF "Decompressor" \in fmt.caps THEN "Decompressor"
  ELSE "Extractor"

\* the type switch of main.go 147-238: the first case the format satisfies
ReadRole(fmt) ==
  IF "Extractor" \in fmt.caps THEN "Extractor"
  ELSE IF "Decompressor" \in fmt.caps THEN "Decompressor"
  ELSE "default"

\* main.go 147, 148, 211, 236-238
ExtractDispatch ==
  /\ pc = "e_dispatch"
  /\ role' = ReadRole(format)
  /\ \/ /\ role' = "Extractor"
        /\ pc' = "e_removeall"
        /\ UNCHANGED <<failed, stderr, exitCode, faults>>
     \/ /\ role' = "Decompressor"
        /\ pc' = "d_openreader"
        /\ UNCHANGED <<failed, stderr, exitCode, faults>>
     \/ /\ role' = "default"
        /\ \E wrote \in BOOLEAN :
             Bail("format doesn't support extraction or decompression",
                  wrote, stderr, FALSE)
  /\ UNCHANGED <<cli, fs, fs0, files, format, identName, stream, output, idx,
                 log, defers, status, run, prev, inputR,
                 handles>>

\* main.go 149-151: os.RemoveAll(output); a failing removal may already
\* have removed what lay below the path
ExtractRemoveAll ==
  /\ pc = "e_removeall"
  /\ \/ /\ ~RemoveAllErr(output)
        /\ fs' = RemoveAll(fs, output)
        /\ pc' = "e_mkdir"
        /\ UNCHANGED <<failed, stderr, exitCode, faults>>
     \/ /\ \E keepRoot \in BOOLEAN :
             fs' = IF keepRoot /\ output # "" /\ Clean(output) \in DOMAIN fs
                     THEN Put(RemoveAll(fs, output), Clean(output),
                              fs[Clean(output)])
                     ELSE fs
        /\ \E wrote \in BOOLEAN :
             Bail("remove existing output", wrote, stderr,
                  ~RemoveAllErr(output))
  /\ UNCHANGED <<cli, fs0, files, format, identName, stream, output, role,
                 idx, log, defers, status, run, prev, inputR,
                 handles>>

\* main.go 153-155: os.Mkdir(output, 0o755)
ExtractMkdir ==
  /\ pc = "e_mkdir"
  /\ \/ /\ ~MkdirErr(fs, output)
        /\ fs' = Mkdir(fs, output, 493)
        /\ pc' = "e_extract"
        /\ UNCHANGED <<failed, stderr, exitCode, faults>>
     \/ /\ \E wrote \in BOOLEAN :
             Bail("create output directory", wrote, stderr,
                  ~MkdirErr(fs, output))
        /\ UNCHANGED fs
  /\ UNCHANGED <<cli, fs0, files, format, identName, stream, output, role,
                 idx, log, defers, status, run, prev, inputR,
                 handles>>

-----------------------------------------------------------------------------
(* the per-entry callback and the Extractor path (main.go 157-209) *)

\* what the environment may make fail while one entry is handled
FaultKinds == {"mkdir", "open", "create", "copy", "closeOut", "closeIn"}

\* the calls the callback makes for a directory and for a file
FaultsFor(info) == IF info.isDir THEN {"mkdir"} ELSE FaultKinds \ {"mkdir"}

\* bytes that reach the destination before a failing copy stops
PartialBytes == 1

Result(f, err, msgs) ==
  [fs |-> f, err |-> err, msgs |-> msgs, trace |-> <<>>]

\* main.go 177-185 and 191-199: a deferred close of the handle h; its error
\* replaces a nil err and is only logged otherwise
AfterClose(r, fails, what, h) ==
  LET c == [r EXCEPT !.trace = Append(@, Closed(h))]
  IN IF ~fails THEN c
     ELSE IF r.err = "nil" THEN [c EXCEPT !.err = what]
     ELSE [c EXCEPT !.msgs = Append(@, what)]

\* main.go 173 and 187: the handles hs were opened before r came about
Opens(hs, r) == [r EXCEPT !.trace = hs \o @]

\* main.go 187-205: the destination file is opened, the entry copied (n
\* bytes arrive when the copy fails), then output and input are closed
HandleFile(f, joinedName, info, flt, n) ==
  IF OpenFileErr(f, joinedName) \/ "create" \in flt
    THEN Opens(<<Opened("entry reader")>>,
               AfterClose(Result(f, "failed to create output file", <<>>),
                          "closeIn" \in flt,
                          "failed to close input entry reader",
                          "entry reader"))
    ELSE LET opened == OpenFile(f, joinedName, info.mode)
             copied == IF "copy" \in flt
                         THEN Result(
                           WriteBytes(opened, joinedName,
                                      Prefix(info.data, n)),
                           "failed to copy input entry to output file", <<>>)
                         ELSE Result(
                           WriteBytes(opened, joinedName, info.data),
                           "nil", <<>>)
         IN Opens(<<Opened("entry reader"), Opened("entry output file")>>,
                  AfterClose(
                    AfterClose(copied, "closeOut" \in flt,
                               "failed to close output file",
                               "entry output file"),
                    "closeIn" \in flt, "failed to close input entry reader",
                    "entry reader"))

\* main.go 157-206: the callback format.Extract runs for one entry
Handler(f, out, info, flt, n) ==
  LET cleanedName == Clean(info.name)
  IN IF ~IsLocal(cleanedName)
       THEN Result(f, "non-local", <<>>)
       ELSE LET joinedName == Join(out, cleanedName)
            IN IF info.isDir
                 THEN IF MkdirErr(f, joinedName) \/ "mkdir" \in flt
                        THEN Result(f, "failed to create output directory",
                                    <<>>)
                        ELSE Result(Mkdir(f, joinedName, info.mode), "nil",
                                    <<>>)
                 ELSE IF "open" \in flt
                        THEN Result(f, "failed to open input entry reader",
                                    <<>>)
                        ELSE HandleFile(f, joinedName, info, flt, n)

\* the entries format.Extract finds reading inputR (main.go 157)
Entries ==
  IF stream = <<>> THEN <<>> ELSE ReadFrom(stream[1], inputR.from).entries

AbortsNever(err) == FALSE

\* format.Extract returns the callback's first error and main bails on it
\* (main.go 157, 207-209)
Aborts(err) == err # "nil"

\* main.go 157-209: format.Extract hands the next entry to the callback
ExtractEntry ==
  /\ pc = "e_extract"
  /\ idx < Len(Entries)
  /\ \E flt \in SUBSET FaultsFor(Entries[idx + 1]) :
       LET r == Handler(fs, output, Entries[idx + 1], flt, PartialBytes)
           env == r # Handler(fs, output, Entries[idx + 1], {}, PartialBytes)
       IN /\ fs' = r.fs
          /\ log' = Append(log, r.err)
          /\ handles' = handles \o r.trace
          /\ IF Aborts(r.err)
               THEN \E wrote \in BOOLEAN :
                      Bail("extract archive", wrote, stderr \o r.msgs, env)
               ELSE /\ env => EnvMayFail
                    /\ stderr' = stderr \o r.msgs
                    /\ faults' = (faults \/ env)
                    /\ UNCHANGED <<failed, exitCode, pc>>
  /\ idx' = idx + 1
  /\ UNCHANGED <<cli, fs0, files, format, identName, stream, output, role,
                 defers, status, run, prev, inputR>>

\* format.Extract fails on its own while reading the archive (main.go 157,
\* 207-209)
ExtractReadError ==
  /\ pc = "e_extract"
  /\ \E wrote \in BOOLEAN : Bail("extract archive", wrote, stderr, TRUE)
  /\ UNCHANGED <<cli, fs, fs0, files, format, identName, stream, output, role,
                 idx, log, defers, status, run, prev, inputR,
                 handles>>

\* format.Extract returns nil after the last entry (main.go 157, 207)
ExtractDone ==
  /\ pc = "e_extract"
  /\ idx = Len(Entries)
  /\ Return
  /\ UNCHANGED <<cli, fs, fs0, files, format, identName, stream, output, role,
                 idx, log, defers, status, run, prev, inputR,
                 handles>>

-----------------------------------------------------------------------------
(* the Decompressor path (main.go 211-234) *)

\* main.go 212-220: format.OpenReader(inputR), defer inputRC.Close(); a
\* stream without the format's leading bytes is refused
DecompOpenReader ==
  /\ pc = "d_openreader"
  /\ \/ /\ ReadFrom(stream[1], inputR.from).magic # "none"
        /\ defers' = Append(defers, "decompressor reader")
        /\ handles' = Append(handles, Opened("decompressor reader"))
        /\ pc' = "d_create"
        /\ UNCHANGED <<failed, stderr, exitCode, faults>>
     \/ /\ \E wrote \in BOOLEAN :
             Bail("create decompressor reader", wrote, stderr,
                  ReadFrom(stream[1], inputR.from).magic # "none")
        /\ UNCHANGED <<defers, handles>>
  /\ UNCHANGED <<cli, fs, fs0, files, format, identName, stream, output, role,
                 idx, log, status, run, prev, inputR>>

\* main.go 222-230: os.Create(output), defer output.Close(); creating the
\* file that is being read truncates what is left to read
DecompCreate ==
  /\ pc = "d_create"
  /\ \/ /\ ~OpenFileErr(fs, output)
        /\ fs' = Create(fs, output)
        /\ stream' = IF Clean(output) = Clean(cli.ExtractInput)
                       THEN <<Plain("")>> ELSE stream
        /\ defers' = Append(defers, "output file")
        /\ handles' = Append(handles, Opened("output file"))
        /\ pc' = "d_copy"
        /\ UNCHANGED <<failed, stderr, exitCode, faults>>
     \/ /\ \E wrote \in BOOLEAN :
             Bail("create output file", wrote, stderr,
                  ~OpenFileErr(fs, output))
        /\ UNCHANGED <<fs, stream, defers, handles>>
  /\ UNCHANGED <<cli, fs0, files, format, identName, output, role, idx, log,
                 status, run, prev, inputR>>

\* main.go 232-234: io.Copy(output, inputRC)
DecompCopy ==
  /\ pc = "d_copy"
  /\ \/ /\ fs' = WriteBytes(fs, output,
                            ReadFrom(stream[1], inputR.from).bytes)
        /\ Return
     \/ /\ fs' = WriteBytes(fs, output,
                            Prefix(ReadFrom(stream[1], inputR.from).bytes,
                                   PartialBytes))
        /\ \E wrote \in BOOLEAN :
             Bail("copy input to output file", wrote, stderr, TRUE)
  /\ UNCHANGED <<cli, fs0, files, format, identName, stream, output, role,
                 idx, log, defers, status, run, prev, inputR,
                 handles>>

-----------------------------------------------------------------------------
(* create (main.go 43-118) *)

\* the order in which filepath.WalkDir meets the paths of the source disk
WalkOrder == <<"a", "d", "d/f">>

\* archives.FilesFromDisk for one root: the root and all below it, each
\* under its path on disk as its name in the archive
Walk(f, root) ==
  LET Met(p) == p \in DOMAIN f /\ Within(p, root)
      Info(p) == [name |-> p, isDir |-> f[p].kind = "dir", mode |-> f[p].mode,
                  disk |-> p]
      met == SelectSeq(WalkOrder, Met)
  IN [i \in 1..Len(met) |-> Info(met[i])]

RECURSIVE WalkAll(_, _)
WalkAll(f, roots) ==
  IF roots = <<>> THEN <<>>
  ELSE Walk(f, Head(roots)) \o WalkAll(f, Tail(roots))

\* main.go 44-47: the keys of the filenames map
Filenames(inputs) == {inputs[i] : i \in 1..Len(inputs)}

\* the orders in which a range over a map may visit its keys
MapOrders(keys) ==
  {o \in [1..Cardinality(keys) -> keys] :
     \A i, j \in 1..Cardinality(keys) : o[i] = o[j] => i = j}

\* main.go 44-51: build the map, archives.FilesFromDisk
CreateDiscover ==
  /\ pc = "c_discover"
  /\ \/ /\ \A i \in 1..Len(cli.CreateInputs) : cli.CreateInputs[i] \in DOMAIN fs
        /\ \E o \in MapOrders(Filenames(cli.CreateInputs)) :
             files' = WalkAll(fs, o)
        /\ pc' = "c_identify"
        /\ UNCHANGED <<failed, stderr, exitCode, faults>>
     \/ /\ \E i \in 1..Len(cli.CreateInputs) :
             cli.CreateInputs[i] \notin DOMAIN fs
        /\ \E wrote \in BOOLEAN : Bail("discover files", wrote, stderr, FALSE)
        /\ UNCHANGED files
  /\ UNCHANGED <<cli, fs, fs0, format, identName, stream, output, role, idx,
                 log, defers, status, run, prev, inputR,
                 handles>>

\* main.go 53-56: archives.Identify(ctx, cli.Create.Output, nil)
CreateIdentify ==
  /\ pc = "c_identify"
  /\ identName' = cli.CreateOutput
  /\ format' = Identify(cli.CreateOutput, <<>>)
  /\ IF format' = NoMatch
       THEN \E wrote \in BOOLEAN : Bail("identify format", wrote, stderr, FALSE)
       ELSE /\ pc' = "c_dispatch"
            /\ UNCHANGED <<failed, stderr, exitCode, faults>>
  /\ UNCHANGED <<cli, fs, fs0, files, stream, output, role, idx, log, defers,
                 status, run, prev, inputR,
                 handles>>

WriteRoleCompressionFirst(fmt) ==
  IF "Compressor" \in fmt.caps THEN "Compressor"
  ELSE IF "Archiver" \in fmt.caps THEN "Archiver"
  ELSE "default"

\* the type switch of main.go 58-118: the first case the format satisfies
WriteRole(fmt) ==
  IF "Archiver" \in fmt.caps THEN "Archiver"
  ELSE IF "Compressor" \in fmt.caps THEN "Compressor"
  ELSE "default"

\* main.go 58, 59, 74, 116-118
CreateDispatch ==
  /\ pc = "c_dispatch"
  /\ role' = WriteRole(format)
  /\ \/ /\ role' = "Archiver"
        /\ pc' = "a_create"
        /\ UNCHANGED <<failed, stderr, exitCode, faults>>
     \/ /\ role' = "Compressor"
        /\ pc' = "z_arity"
        /\ UNCHANGED <<failed, stderr, exitCode, faults>>
     \/ /\ role' = "default"
        /\ \E wrote \in BOOLEAN :
             Bail("format doesn't support archiving or compression",
                  wrote, stderr, FALSE)
  /\ UNCHANGED <<cli, fs, fs0, files, format, identName, stream, output, idx,
                 log, defers, status, run, prev, inputR,
                 handles>>

\* main.go 60-68: os.Create(cli.Create.Output), defer output.Close()
ArchiveCreateFile ==
  /\ pc = "a_create"
  /\ \/ /\ ~OpenFileErr(fs, cli.CreateOutput)
        /\ fs' = Create(fs, cli.CreateOutput)
        /\ defers' = Append(defers, "archive file")
        /\ handles' = Append(handles, Opened("archive file"))
        /\ pc' = "a_archive"
        /\ UNCHANGED <<failed, stderr, exitCode, faults>>
     \/ /\ \E wrote \in BOOLEAN :
             Bail("create archive file", wrote, stderr,
                  ~OpenFileErr(fs, cli.CreateOutput))
        /\ UNCHANGED <<fs, defers, handles>>
  /\ UNCHANGED <<cli, fs0, files, format, identName, stream, output, role,
                 idx, log, status, run, prev, inputR>>

\* the entry format.Archive writes for one FileInfo: name and mode as
\* discovered, content as read from the disk now
Archived(f, info) ==
  [name |-> info.name, isDir |-> info.isDir,
   data |-> IF info.isDir THEN "" ELSE f[info.disk].data.bytes,
   mode |-> info.mode]

ArchivedAll(f, infos) == [i \in 1..Len(infos) |-> Archived(f, infos[i])]

\* main.go 70-72: format.Archive(ctx, output, files); when it fails only
\* the first k entries have reached the file
ArchiveWrite ==
  /\ pc = "a_archive"
  /\ \/ /\ fs' = [fs EXCEPT ![cli.CreateOutput].data =
                    Packed(format.name, "", ArchivedAll(fs, files))]
        /\ Return
     \/ /\ \E k \in 0..Len(files) :
             fs' = [fs EXCEPT ![cli.CreateOutput].data =
                      Packed(format.name, "",
                             ArchivedAll(fs, SubSeq(files, 1, k)))]
        /\ \E wrote \in BOOLEAN : Bail("create archive", wrote, stderr, TRUE)
  /\ UNCHANGED <<cli, fs0, files, format, identName, stream, output, role,
                 idx, log, defers, status, run, prev, inputR,
                 handles>>

\* main.go 75, 78: the count the Compressor case compares with 1
Arity == Len(files)

CompressArityAfterCreate ==
  /\ pc = "z_arity"
  /\ ~OpenFileErr(fs, cli.CreateOutput)
  /\ fs' = Create(fs, cli.CreateOutput)
  /\ \/ /\ Arity < 1
        /\ \E wrote \in BOOLEAN : Bail("no input file", wrote, stderr, FALSE)
     \/ /\ Arity > 1
        /\ \E wrote \in BOOLEAN :
             Bail("multiple input files", wrote, stderr, FALSE)
     \/ /\ Arity = 1
        /\ pc' = "z_create"
        /\ UNCHANGED <<failed, stderr, exitCode, faults>>
  /\ UNCHANGED <<cli, fs0, files, format, identName, stream, output, role,
                 idx, log, defers, status, run, prev, inputR,
                 handles>>

\* main.go 75-80
CompressArity ==
  /\ pc = "z_arity"
  /\ \/ /\ Arity < 1
        /\ \E wrote \in BOOLEAN : Bail("no input file", wrote, stderr, FALSE)
     \/ /\ Arity > 1
        /\ \E wrote \in BOOLEAN :
             Bail("multiple input files", wrote, stderr, FALSE)
     \/ /\ Arity = 1
        /\ pc' = "z_create"
        /\ UNCHANGED <<failed, stderr, exitCode, faults>>
  /\ UNCHANGED <<cli, fs, fs0, files, format, identName, stream, output, role,
                 idx, log, defers, status, run, prev, inputR,
                 handles>>

\* main.go 82-90: os.Create(cli.Create.Output), defer output.Close()
CompressCreateFile ==
  /\ pc = "z_create"
  /\ \/ /\ ~OpenFileErr(fs, cli.CreateOutput)
        /\ fs' = Create(fs, cli.CreateOutput)
        /\ defers' = Append(defers, "compressed file")
        /\ handles' = Append(handles, Opened("compressed file"))
        /\ pc' = "z_writer"
        /\ UNCHANGED <<failed, stderr, exitCode, faults>>
     \/ /\ \E wrote \in BOOLEAN :
             Bail("create compressed file", wrote, stderr,
                  ~OpenFileErr(fs, cli.CreateOutput))
        /\ UNCHANGED <<fs, defers, handles>>
  /\ UNCHANGED <<cli, fs0, files, format, identName, stream, output, role,
                 idx, log, status, run, prev, inputR>>

\* main.go 92-100: format.OpenWriter(output), defer outputWC.Close()
CompressOpenWriter ==
  /\ pc = "z_writer"
  /\ \/ /\ defers' = Append(defers, "compressed file writer")
        /\ handles' = Append(handles, Opened("compressed file writer"))
        /\ pc' = "z_open"
        /\ UNCHANGED <<failed, stderr, exitCode, faults>>
     \/ /\ \E wrote \in BOOLEAN :
             Bail("create compressed file writer", wrote, stderr, TRUE)
        /\ UNCHANGED <<defers, handles>>
  /\ UNCHANGED <<cli, fs, fs0, files, format, identName, stream, output, role,
                 idx, log, status, run, prev, inputR>>

\* main.go 102-110: files[0].Open(), defer input.Close()
CompressOpenInput ==
  /\ pc = "z_open"
  /\ \/ /\ defers' = Append(defers, "compressor input")
        /\ handles' = Append(handles, Opened("compressor input"))
        /\ pc' = "z_copy"
        /\ UNCHANGED <<failed, stderr, exitCode, faults>>
     \/ /\ \E wrote \in BOOLEAN :
             Bail("open input file", wrote, stderr, TRUE)
        /\ UNCHANGED <<defers, handles>>
  /\ UNCHANGED <<cli, fs, fs0, files, format, identName, stream, output, role,
                 idx, log, status, run, prev, inputR>>

\* main.go 112-114: io.Copy(outputWC, input); reading a directory fails
CompressCopy ==
  /\ pc = "z_copy"
  /\ \/ /\ ~files[1].isDir
        /\ fs' = [fs EXCEPT ![cli.CreateOutput].data =
                    Packed(format.name, fs[files[1].disk].data.bytes, <<>>)]
        /\ Return
     \/ /\ fs' = [fs EXCEPT ![cli.CreateOutput].data =
                    Packed(format.name,
                           IF files[1].isDir THEN ""
                           ELSE Prefix(fs[files[1].disk].data.bytes,
                                       PartialBytes),
                           <<>>)]
        /\ \E wrote \in BOOLEAN :
             Bail("copy input file to compressed file writer", wrote, stderr,
                  ~files[1].isDir)
  /\ UNCHANGED <<cli, fs0, files, format, identName, stream, output, role,
                 idx, log, defers, status, run, prev, inputR,
                 handles>>

CreateNext ==
  \/ CreateDiscover
  \/ CreateIdentify
  \/ CreateDispatch
  \/ ArchiveCreateFile
  \/ ArchiveWrite
  \/ CompressArity
  \/ CompressCreateFile
  \/ CompressOpenWriter
  \/ CompressOpenInput
  \/ CompressCopy

\* the tool is run again: the file written by a create in which nothing
\* failed is extracted into the directory "out"
ExtractCreated ==
  /\ pc = "exited"
  /\ cli.cmd = "create"
  /\ status = 0
  /\ ~faults
  /\ prev' = Append(prev, cli)
  /\ cli' = ExtractCmd(cli.CreateOutput, <<"out">>)
  /\ pc' = "e_open"
  /\ fs0' = fs
  /\ files' = <<>>
  /\ format' = NoMatch
  /\ identName' = ""
  /\ stream' = <<>>
  /\ output' = ""
  /\ role' = "none"
  /\ idx' = 0
  /\ log' = <<>>
  /\ defers' = <<>>
  /\ exitCode' = 0
  /\ status' = Running
  /\ stderr' = <<>>
  /\ failed' = {}
  /\ run' = run + 1
  /\ inputR' = NoReader
  /\ handles' = <<>>
  /\ UNCHANGED <<fs, faults>>

ExtractNext ==
  \/ ExtractOpen
  \/ ExtractIdentify
  \/ ExtractOutput
  \/ ExtractDispatch
  \/ ExtractRemoveAll
  \/ ExtractMkdir
  \/ ExtractEntry
  \/ ExtractReadError
  \/ ExtractDone
  \/ DecompOpenReader
  \/ DecompCreate
  \/ DecompCopy

Next ==
  \/ CreateNext
  \/ ExtractNext
  \/ ExtractCreated
  \/ RunDeferred
  \/ Exit

Spec == Init /\ [][Next]_vars

-----------------------------------------------------------------------------
(* Properties *)

Exited == pc = "exited"

\* the node at p is what it was when the invocation started
SameAt(p) ==
  /\ p \in DOMAIN fs <=> p \in DOMAIN fs0
  /\ p \in DOMAIN fs => fs[p] = fs0[p]

RECURSIVE Climbs(_, _)
Climbs(segs, depth) ==
  IF segs = <<>> THEN FALSE
  ELSE IF Head(segs) = ".."
         THEN depth = 0 \/ Climbs(Tail(segs), depth - 1)
         ELSE IF Head(segs) \in {"", "."} THEN Climbs(Tail(segs), depth)
         ELSE Climbs(Tail(segs), depth + 1)

\* an entry name that is absolute or climbs above the directory it is
\* resolved in
Escapes(name) == IsAbs(name) \/ Climbs(Split(name), 0)

OutsideUntouched ==
  role = "Extractor" =>
    \A p \in DOMAIN fs \cup DOMAIN fs0 :
      ~Within(p, Clean(output)) => SameAt(p)

EscapingEntryAborts ==
  \A i \in 1..Len(log) :
    Escapes(Entries[i].name) =>
      /\ log[i] = "non-local"
      /\ i = Len(log)
      /\ pc \in {"unwind", "exited"}
      /\ "extract archive" \in failed

EscapingEntryMutatesNothing ==
  (pc = "e_extract" /\ idx' = idx + 1 /\ Escapes(Entries[idx'].name))
    => fs' = fs

\* C1: extract never creates or writes anything outside the destination
\* directory; an entry whose name is absolute or climbs above the root
\* aborts the extraction with the non-local (traversal) error, and the disk
\* is not touched for that entry.
C1_NoTraversal ==
  /\ [](OutsideUntouched /\ EscapingEntryAborts)
  /\ [][EscapingEntryMutatesNothing]_vars

\* an entry was written, then the escaping entry after it was refused
C1_Witness ==
  /\ Exited
  /\ Len(log) = 2
  /\ log[1] = "nil"
  /\ log[2] = "non-local"
  /\ Escapes(Entries[2].name)
  /\ status = 1

\* the paths the inputs of the first invocation (a create) cover
InputTree ==
  {p \in DOMAIN fs :
     \E i \in 1..Len(prev[1].CreateInputs) :
       Within(p, prev[1].CreateInputs[i])}

ExtractedTree == {q \in DOMAIN fs : q # "out" /\ Within(q, "out")}

SameEntry(p, q) ==
  /\ fs[p].kind = fs[q].kind
  /\ fs[p].mode = fs[q].mode
  /\ fs[p].data.bytes = fs[q].data.bytes

\* C2: create(A, T) followed by extract(A, T') succeeds and yields under T'
\* exactly the entry names, file contents and mode bits of T, for any input
\* paths (as stated; the environment failing is not held against it).
C2_RoundTrip ==
  (run = 2 /\ Exited /\ ~faults
     /\ "Archiver" \in Identify(prev[1].CreateOutput, <<>>).caps) =>
    /\ status = 0
    /\ \A p \in InputTree :
         Join("out", p) \in DOMAIN fs /\ SameEntry(p, Join("out", p))
    /\ \A q \in ExtractedTree : \E p \in InputTree : q = Join("out", p)

ArityErrors == {"no input file", "multiple input files"}

\* C3: create with a Compressor format fails with an ArityError for every
\* input list of length 0 or of length 2 or more, counted as the paths the
\* caller gave, and gets past the arity check only with exactly one input
\* (as stated).
C3_ArityCountsCallerPaths ==
  (cli.cmd = "create" /\ role = "Compressor" /\ pc # "z_arity") =>
    /\ Len(cli.CreateInputs) = 0 => "no input file" \in failed
    /\ Len(cli.CreateInputs) >= 2 => "multiple input files" \in failed
    /\ failed \cap ArityErrors = {} => Len(cli.CreateInputs) = 1

EarlyCreateErrors ==
  {"discover files", "identify format", "no input file",
   "multiple input files",
   "format doesn't support archiving or compression"}

\* C4: when create fails with a discovery, identification, arity or
\* unsupported-capability error the output path is neither created nor
\* truncated; the output is touched only after discovery, identification,
\* dispatch and (Compressor) the arity check have succeeded.
C4_OutputUntouched ==
  cli.cmd = "create" =>
    /\ failed \cap EarlyCreateErrors # {} => SameAt(cli.CreateOutput)
    /\ ~SameAt(cli.CreateOutput) =>
         /\ format # NoMatch
         /\ role \in {"Archiver", "Compressor"}
         /\ role = "Compressor" => Len(files) = 1
         /\ \A i \in 1..Len(cli.CreateInputs) :
              \E j \in 1..Len(files) : files[j].name = cli.CreateInputs[i]

\* two inputs for a compressed file, and the file that was there is intact
C4_Witness ==
  /\ Exited
  /\ cli.cmd = "create"
  /\ "multiple input files" \in failed
  /\ cli.CreateOutput \in DOMAIN fs
  /\ fs[cli.CreateOutput].data = Plain("old!")

OnlyLastEntryFails ==
  \A i \in 1..Len(log) :
    log[i] # "nil" =>
      /\ i = Len(log)
      /\ pc \in {"unwind", "exited"}
      /\ "extract archive" \in failed

WrittenEntriesRemain ==
  \A i \in 1..Len(log) :
    log[i] = "nil" => Join(output, Clean(Entries[i].name)) \in DOMAIN fs

NothingAfterFailure == "extract archive" \in failed => fs' = fs /\ idx' = idx

\* C5: extraction aborts on the first failing entry: the entries written
\* before it remain on disk, no later entry is created or written, and
\* nothing is rolled back.
C5_AbortOnFirstFailure ==
  /\ [](OnlyLastEntryFails /\ WrittenEntriesRemain /\ idx = Len(log))
  /\ [][NothingAfterFailure]_vars

\* the second of two entries failed and the first is on disk
C5_Witness ==
  /\ Exited
  /\ Len(Entries) = 2
  /\ Len(log) = 2
  /\ log[1] = "nil"
  /\ log[2] # "nil"
  /\ Join(output, Clean(Entries[1].name)) \in DOMAIN fs

\* C6: the exit status is non-zero whenever any step failed (bail was
\* invoked), and zero only when every step succeeded (as stated).
C6_ExitStatus == Exited => (status # 0 <=> failed # {})

PreparingErrors == {"remove existing output", "create output directory"}

PastPreparing ==
  /\ role = "Extractor"
  /\ pc \in {"e_extract", "unwind", "exited"}
  /\ failed \cap PreparingErrors = {}

\* C7: the Extractor path removes whatever is at the output path and
\* creates it as a fresh empty directory before any entry is processed, so
\* nothing that was under the output path survives; when the removal or the
\* creation fails no entry is processed.
C7_NotAdditive ==
  /\ PastPreparing =>
       /\ IsDirAt(fs, Clean(output))
       /\ \A p \in DOMAIN fs : Within(p, Clean(output)) => fs[p].ino = "new"
  /\ (pc = "e_extract" /\ idx = 0) =>
       \A p \in DOMAIN fs : Within(p, Clean(output)) => p = Clean(output)
  /\ failed \cap PreparingErrors # {} => idx = 0 /\ log = <<>>

\* a file that was in the output directory was replaced by the archive's
C7_Witness ==
  /\ Exited
  /\ status = 0
  /\ role = "Extractor"
  /\ output = "out"
  /\ "out/a" \in DOMAIN fs0
  /\ "out/a" \in DOMAIN fs
  /\ fs["out/a"].ino = "new"

RoleFor(first, second) ==
  IF first \in format.caps THEN first
  ELSE IF second \in format.caps THEN second
  ELSE "default"

\* C8: exactly one role per identified format: Archiver before Compressor
\* for create, Extractor before Decompressor for extract, the archive role
\* when both are supported, and an UnsupportedCapability failure (no
\* fallback) when neither is.
C8_Dispatch ==
  /\ role # "none" =>
       /\ cli.cmd = "create" => role = RoleFor("Archiver", "Compressor")
       /\ cli.cmd = "extract" => role = RoleFor("Extractor", "Decompressor")
       /\ role = "default" =>
            /\ pc \in {"unwind", "exited"}
            /\ fs = fs0
            /\ \E m \in failed : HasPrefix(m, "format doesn't support")
  /\ pc \in {"a_create", "a_archive"} => role = "Archiver"
  /\ pc \in {"z_arity", "z_create", "z_writer", "z_open", "z_copy"}
       => role = "Compressor"
  /\ pc \in {"e_removeall", "e_mkdir", "e_extract"} => role = "Extractor"
  /\ pc \in {"d_openreader", "d_create", "d_copy"} => role = "Decompressor"

\* a format with both roles was archived, then extracted as an archive
C8_Witness ==
  /\ Exited
  /\ run = 2
  /\ status = 0
  /\ prev[1].CreateOutput = "o.tar.gz"
  /\ format.caps = {"Archiver", "Extractor", "Compressor", "Decompressor"}
  /\ role = "Extractor"
  /\ fs[cli.ExtractInput].data.magic = "tar.gz"
  /\ Len(fs[cli.ExtractInput].data.entries) > 0

\* the source name has an extension in its last element
HasExt(in) ==
  \E k \in 1..Len(in) :
    Char(in, k) = "." /\ \A j \in (k + 1)..Len(in) : Char(in, j) # "/"

OutputDetermined ==
  /\ cli.cmd = "extract"
  /\ format # NoMatch
  /\ pc \notin {"e_open", "e_identify", "e_output"}

\* C9: the output of extract is the explicit output when given; else the
\* source name without the format's canonical extension when it ends with
\* it; else the source name without its extension when it has one; else the
\* run fails and nothing on disk has changed.
C9_OutputPath ==
  OutputDetermined =>
    LET in == cli.ExtractInput
        explicit == cli.ExtractOutput
    IN IF explicit # <<>> THEN output = explicit[1]
       ELSE IF HasSuffix(in, format.ext)
              THEN in = output \o format.ext
       ELSE IF HasExt(in)
              THEN \E k \in 1..Len(in) :
                     /\ Char(in, k) = "."
                     /\ \A j \in (k + 1)..Len(in) : Char(in, j) \notin {".", "/"}
                     /\ output = SubSeq(in, 1, k - 1)
       ELSE /\ "determine output path" \in failed
            /\ role = "none"
            /\ fs = fs0

\* the canonical extension of a compressed archive was stripped whole
C9_Witness ==
  /\ OutputDetermined
  /\ cli.ExtractOutput = <<>>
  /\ cli.ExtractInput = "x.tar.gz"
  /\ format.ext = ".tar.gz"
  /\ output = "x"
  /\ pc = "e_extract"

\* C10: on the extract path the identifier is given the source archive's
\* path with the open stream, so the descriptor is the one the source
\* path's extension and the stream's leading bytes determine (as stated).
C10_IdentifyBySourcePath ==
  (cli.cmd = "extract" /\ stream # <<>> /\ pc \notin {"e_open", "e_identify"})
    => /\ identName = cli.ExtractInput
       /\ format = Identify(cli.ExtractInput, stream)

\* the content of the source file when the invocation started
Source == fs0[cli.ExtractInput].data

\* C11: identification does not consume the input: after Identify has read
\* the leading bytes, the Extractor and the Decompressor read the reader it
\* returned from the first byte of the source, so the archive's entries are
\* all found and the decompressed output is the whole payload.
C11_ReplayFromStart ==
  (cli.cmd = "extract" /\ stream # <<>> /\ pc \notin {"e_open", "e_identify"})
    => /\ inputR.sniffed = Sniffed(<<Source>>)
       /\ inputR.from = 0
       /\ role = "Extractor" => Entries = Source.entries
       /\ (role = "Decompressor" /\ Exited /\ failed = {} /\ ~faults) =>
            fs[Clean(output)].data.bytes = Source.bytes

\* a compressed file whose header was sniffed was decompressed whole
C11_Witness ==
  /\ Exited
  /\ cli.cmd = "extract"
  /\ role = "Decompressor"
  /\ failed = {}
  /\ inputR.sniffed > 0
  /\ Source.bytes = "hi"
  /\ fs[Clean(output)].data.bytes = "hi"

\* the last entry handed to the callback and the path it was written to
LastEntry == Entries[Len(log)]

LastDest == Join(output, Clean(LastEntry.name))

\* C12: after a non-directory entry has been processed without error the
\* destination file holds exactly that entry's bytes and carries the entry's
\* mode bits, also when an earlier entry of the archive had the same name
\* (as stated; nothing in the environment has failed).
C12_FileAsEntry ==
  (role = "Extractor" /\ ~faults /\ Len(log) > 0 /\ log[Len(log)] = "nil"
     /\ ~LastEntry.isDir) =>
    /\ LastDest \in DOMAIN fs
    /\ fs[LastDest].kind = "file"
    /\ fs[LastDest].data.bytes = LastEntry.data
    /\ fs[LastDest].mode = LastEntry.mode

\* the name joins to a path below the output directory, not to it
StrictlyInside(name) ==
  /\ Join(output, Clean(name)) # Clean(output)
  /\ Within(Join(output, Clean(name)), Clean(output))

\* C13: every entry name the path sanitizer accepts joins to a strict
\* descendant of the output directory, never to the output directory itself;
\* an entry whose cleaned name does not resolve strictly inside the output
\* directory aborts the extraction with the traversal (non-local) error and
\* no further entry is processed (as stated).
C13_StrictDescendant ==
  (role = "Extractor" /\ ~faults) =>
    \A i \in 1..Len(log) :
      /\ log[i] # "non-local" => StrictlyInside(Entries[i].name)
      /\ ~StrictlyInside(Entries[i].name) =>
           /\ log[i] = "non-local"
           /\ i = Len(log)
           /\ pc \in {"unwind", "exited"}
           /\ "extract archive" \in failed

IOErrors ==
  {"failed to create output directory", "failed to create output file"}

\* the directories below the output directory
DirsBelowOutput ==
  {p \in DOMAIN fs : fs[p].kind = "dir" /\ p # Clean(output)
                      /\ Within(p, Clean(output))}

NamedByDirEntry(p) ==
  \E i \in 1..Len(log) :
    /\ Entries[i].isDir
    /\ log[i] = "nil"
    /\ Join(output, Clean(Entries[i].name)) = p

\* the entry being handed to the callback in this step and its destination
NextEntry == Entries[idx + 1]

NextDest == Join(output, Clean(NextEntry.name))

\* one step of the callback creates at most the path its entry names, and
\* an accepted entry whose parent directory is missing fails with an I/O
\* error (unless the environment made an earlier call fail), changes nothing
\* and ends the extraction
NoImplicitParent ==
  (pc = "e_extract" /\ idx' = idx + 1) =>
    /\ DOMAIN fs' \ DOMAIN fs \subseteq {NextDest}
    /\ (IsLocal(Clean(NextEntry.name)) /\ ~IsDirAt(fs, DirOf(NextDest))) =>
         /\ log'[idx'] # "nil"
         /\ ~faults' => log'[idx'] \in IOErrors
         /\ fs' = fs
         /\ pc' = "unwind"

\* C14: extraction never creates a parent directory implicitly: a directory
\* entry creates only the directory it names, an entry whose parent directory
\* does not exist fails with an I/O error that aborts the extraction, and
\* every directory under the output was named by a directory entry.
C14_NoImplicitParents ==
  /\ [](PastPreparing => \A p \in DirsBelowOutput : NamedByDirEntry(p))
  /\ [][NoImplicitParent]_vars

\* a file below a directory that no entry created was refused and the
\* directory was not made for it
C14_Witness ==
  /\ Exited
  /\ role = "Extractor"
  /\ Len(log) = 1
  /\ Entries[1].name = "d/a"
  /\ log[1] = "failed to create output file"
  /\ DirsBelowOutput = {}

\* the handles left open by a sequence of opens and closes, innermost
\* last; ok is FALSE when a handle is opened twice or a close is not of the
\* innermost open handle
RECURSIVE Held(_, _)
Held(evs, open) ==
  IF evs = <<>> THEN [ok |-> TRUE, open |-> open]
  ELSE IF Head(evs)[1] = "open"
         THEN IF \E i \in 1..Len(open) : open[i] = Head(evs)[2]
                THEN [ok |-> FALSE, open |-> open]
                ELSE Held(Tail(evs), Append(open, Head(evs)[2]))
  ELSE IF open # <<>> /\ open[Len(open)] = Head(evs)[2]
         THEN Held(Tail(evs), SubSeq(open, 1, Len(open) - 1))
  ELSE [ok |-> FALSE, open |-> open]

\* C15: every handle opened during a run is closed exactly once on every
\* exit path, in reverse order of acquisition (the compressor writer before
\* its file), and before the process exits; the handles of one entry are
\* closed before the next entry is processed.
C15_ScopedHandles ==
  /\ Held(handles, <<>>).ok
  /\ Held(handles, <<>>).open = defers
  /\ Exited => Held(handles, <<>>).open = <<>>
  /\ pc = "e_extract" => Held(handles, <<>>).open = <<"input file">>

\* the copy into the compressor failed and its three handles were closed,
\* the writer before the file below it
C15_Witness ==
  /\ Exited
  /\ "copy input file to compressed file writer" \in failed
  /\ handles = <<Opened("compressed file"), Opened("compressed file writer"),
                 Opened("compressor input"), Closed("compressor input"),
                 Closed("compressed file writer"), Closed("compressed file")>>

CloseFaults == {"closeOut", "closeIn"}

\* a diagnostic that names the failure of a close
IsCloseMessage(m) == HasPrefix(m, "close ") \/ HasPrefix(m, "failed to close ")

\* the bail points reached that are not failed closes
PrimaryFailures == {p \in failed : ~HasPrefix(p, "close ")}

\* whatever closes fail in the callback, its error is the one it has
\* without them when that is an error
HandlerKeepsFirstError ==
  (pc = "e_extract" /\ idx < Len(Entries)) =>
    \A flt \in SUBSET FaultsFor(NextEntry) :
      LET r == Handler(fs, output, NextEntry, flt, PartialBytes)
          q == Handler(fs, output, NextEntry, flt \ CloseFaults, PartialBytes)
      IN /\ q.err # "nil" => r.err = q.err
         /\ q.err = "nil" => r.err = "nil" \/ IsCloseMessage(r.err)
         /\ \A i \in 1..Len(r.msgs) : IsCloseMessage(r.msgs[i])

\* every diagnostic bail was asked to print reached os.Stderr
AllWritten == \A p \in failed : \E i \in 1..Len(stderr) : stderr[i] = Diagnostic(p)

\* C16: a close failure never masks an earlier primary error: in the callback
\* a close error is returned only when no error is set and is logged
\* otherwise, and of a failing run the first diagnostic on stderr is the
\* primary failure's and all that follow report failed closes (as stated;
\* for the runs whose diagnostics were all written).
C16_PrimaryErrorFirst ==
  /\ HandlerKeepsFirstError
  /\ (Exited /\ failed # {} /\ AllWritten) =>
       /\ \A p \in PrimaryFailures : stderr[1] = p
       /\ PrimaryFailures = {} => IsCloseMessage(stderr[1])
       /\ \A i \in 2..Len(stderr) : IsCloseMessage(stderr[i])

\* the failures of extract before the type switch has chosen a role
BeforeRoleErrors ==
  {"open input file", "identify format", "determine output path",
   "format doesn't support extraction or decompression"}

\* C17: extract removes, creates or truncates nothing unless the source was
\* opened, its format identified, the output path determined and the format
\* dispatched to a role: when it fails to open the source, to identify the
\* format, to derive the output path, or because the format supports
\* neither extraction nor decompression, what was at the output path (and
\* anywhere else) is unchanged.
C17_NothingBeforeDispatch ==
  cli.cmd = "extract" =>
    /\ failed \cap BeforeRoleErrors # {} => fs = fs0
    /\ "create decompressor reader" \in failed => fs = fs0
    /\ pc \in {"e_open", "e_identify", "e_output", "e_dispatch"} => fs = fs0
    /\ fs # fs0 =>
         /\ stream # <<>>
         /\ format # NoMatch
         /\ format.caps \cap {"Extractor", "Decompressor"} # {}
         /\ role \in {"Extractor", "Decompressor"}
         /\ output = DeriveOutput(cli.ExtractInput, cli.ExtractOutput,
                                  format)[1]

\* the format has no reading role and the directory that was at the output
\* path is still there with its file
C17_Witness ==
  /\ Exited
  /\ cli.cmd = "extract"
  /\ cli.ExtractOutput = <<"out">>
  /\ "format doesn't support extraction or decompression" \in failed
  /\ "out/a" \in DOMAIN fs0
  /\ fs = fs0

\* C18: when the output path of extract is derived rather than given it is
\* never the source path, and the source archive is neither deleted nor
\* truncated by the removal of the Preparing step or by the Decompressor's
\* file creation (as stated).
C18_SourceKept ==
  (cli.cmd = "extract" /\ cli.ExtractOutput = <<>>
     /\ cli.ExtractInput \in DOMAIN fs0) =>
    /\ OutputDetermined => Clean(output) # Clean(cli.ExtractInput)
    /\ cli.ExtractInput \in DOMAIN fs
    /\ fs[cli.ExtractInput] = fs0[cli.ExtractInput]

\* the position in the input list of the first input path that covers the
\* discovered file
RootOf(info) ==
  CHOOSE i \in 1..Len(cli.CreateInputs) :
    /\ Within(info.disk, cli.CreateInputs[i])
    /\ \A j \in 1..(i - 1) : ~Within(info.disk, cli.CreateInputs[j])

\* C19: the input file set built by create preserves the order in which the
\* caller gave the input paths: the entries are handed to the archive writer
\* in the order of the list, so two invocations with the same list hand
\* them over in the same order (as stated).
C19_InputOrderKept ==
  (cli.cmd = "create" /\ pc # "c_discover"
     /\ "discover files" \notin failed) =>
    \A i, j \in 1..Len(files) :
      i < j => RootOf(files[i]) <= RootOf(files[j])

====
